---- MODULE Spec2Model ----
(***************************************************************************)
(* State-machine model of frontend/script.js: the search and question      *)
(* orchestrators (searchManager, questionManager), the loading guard       *)
(* (loadingManager), error reporting (errorHandler), the transport client  *)
(* (apiClient.makeRequest) and the localStorage records (bookmarks, recent *)
(* searches, question history).                                            *)
(*                                                                         *)
(* JavaScript runs one task at a time: every action below is one task of   *)
(* the event loop, from its start to the next await on the network.        *)
(* Strings that the code only compares or stores are TLA+ strings; a query *)
(* or question is a string whose blanks matter to String.prototype.trim,   *)
(* so it is a sequence of one-character strings.                           *)
(***************************************************************************)
EXTENDS Integers, Sequences, FiniteSets, TLC

VARIABLES
    isLoading,        \* appState.isLoading
    hasArticles,      \* appState.hasArticles
    lastQuery,        \* appState.lastQuery
    articles,         \* appState.articles
    currentAnswer,    \* appState.currentAnswer
    statusDot,        \* class of elements.statusDot: "ready", "loading", "error"
    errorModal,       \* elements.errorModal / elements.errorMessage
    newsContainer,    \* what renderArticles last put into elements.newsContainer
    answerContainer,  \* elements.answerContainer
    bookmarks,        \* localStorage 'ai-news-bookmarks'
    recentSearches,   \* localStorage 'ai-news-recent-searches'
    questionHistory,  \* localStorage 'ai-news-question-history'
    inflight,         \* requests awaiting the network, with their continuation
    calls,            \* number of fetch() calls issued so far
    clock,            \* what new Date() returns
    notified,         \* what the last task handed to utils.showNotification
    event,            \* history: the task that ran last and its input
    atCall,           \* history: the session fields when the guard was last taken
    preToggle,        \* history: the bookmarks before the last toggleBookmark
    questionInput,    \* elements.questionInput.value
    draftQuestion,    \* localStorage 'ai-news-draft-question'
    newsQuery,        \* elements.newsQuery.value
    draftQuery,       \* localStorage 'ai-news-draft-query'
    probes,           \* number of health probes issued so far
    periodic,         \* the setInterval of startPeriodicCheck is installed
    checked,          \* history: what healthCheck.check last returned and set
    initHealthy       \* history: isHealthy of app.init

appVars   == <<isLoading, hasArticles, lastQuery, articles, currentAnswer>>
domVars   == <<statusDot, errorModal, newsContainer, answerContainer>>
storeVars == <<bookmarks, recentSearches, questionHistory>>
netVars   == <<inflight, calls>>
histVars  == <<atCall, preToggle>>
draftVars == <<questionInput, draftQuestion, newsQuery, draftQuery>>
healthVars == <<probes, periodic, checked, initHealthy>>
vars == <<isLoading, hasArticles, lastQuery, articles, currentAnswer,
          statusDot, errorModal, newsContainer, answerContainer,
          bookmarks, recentSearches, questionHistory,
          inflight, calls, clock, notified, event, atCall, preToggle,
          questionInput, draftQuestion, newsQuery, draftQuery,
          probes, periodic, checked, initHealthy>>

(***************************************************************************)
(* Bounds of the model.                                                    *)
(***************************************************************************)
MaxCalls == 3
MaxInflight == 2
MaxClock == 1

(***************************************************************************)
(* Inputs.                                                                 *)
(***************************************************************************)
Whitespace == {" "}

Queries == {<<>>, <<" ">>, <<"x">>, <<" ", "y">>}

Questions == {<<>>, <<" ">>, <<"w">>}

Article(t, s, u) == [title |-> t, source |-> s, url |-> u, summary |-> "sum"]

ArtAB_C == Article("a-b", "c", "")
ArtA_BC == Article("a", "b-c", "")
ArtU    == Article("a", "c", "http://u")
ArtU2   == Article("t", "c", "http://u")

ArticleLists == {<<>>, <<ArtU>>, <<ArtAB_C, ArtA_BC>>}

\* What fetch() can settle with: a rejection (no response reachable) or a
\* response whose status is a success (response.ok) or not.
FetchOutcomes ==
    { [kind |-> "reject",   ok |-> FALSE, status |-> 0],
      [kind |-> "response", ok |-> TRUE,  status |-> 200],
      [kind |-> "response", ok |-> FALSE, status |-> 500] }

\* What response.json() can settle with: a decoded body, or a rejection when
\* the body is not JSON.  A field the body lacks is "" (or <<>> for articles):
\* the code tests these fields for truthiness only.
Body(l, a, d) ==
    [decodable |-> TRUE, articles |-> l, total_count |-> Len(l),
     answer |-> a, detail |-> d, message |-> ""]

Undecodable ==
    [decodable |-> FALSE, articles |-> <<>>, total_count |-> 0,
     answer |-> "", detail |-> "", message |-> ""]

Bodies ==
    {Undecodable} \cup
    { Body(l, "", "") : l \in ArticleLists } \cup
    { Body(<<>>, "ans", ""), Body(<<>>, "", "bad"), Body(<<ArtU>>, "ans", "bad"),
      [Body(<<>>, "", "") EXCEPT !.message = "msg"] }

Null == [null |-> TRUE]

NoNotes == <<>>

Note(m, t) == [message |-> m, type |-> t]

\* The history of the last task: the operation, its argument (for a settlement
\* the argument of the request), and for a settlement what the network
\* delivered.
NoResp == [rejected |-> FALSE, ok |-> FALSE, status |-> 0, body |-> Undecodable]

Resp(ok, status, body) == [rejected |-> FALSE, ok |-> ok, status |-> status, body |-> body]

Rejected == [rejected |-> TRUE, ok |-> FALSE, status |-> 0, body |-> Undecodable]

Event(o, a, out, resp) == [op |-> o, arg |-> a, outcome |-> out, resp |-> resp]

(***************************************************************************)
(* Pure helpers.                                                           *)
(***************************************************************************)
RECURSIVE TrimStart(_)
TrimStart(s) ==
    IF s = <<>> THEN s
    ELSE IF Head(s) \in Whitespace THEN TrimStart(Tail(s)) ELSE s

RECURSIVE TrimEnd(_)
TrimEnd(s) ==
    IF s = <<>> THEN s
    ELSE IF s[Len(s)] \in Whitespace THEN TrimEnd(SubSeq(s, 1, Len(s) - 1)) ELSE s

\* String.prototype.trim
Trim(s) == TrimEnd(TrimStart(s))

\* the test without the trim: !query
IsBlankNoTrim(s) == s = <<>>

\* the blank test reached only after the loading guard
IsBlankWhenIdle(s) == Trim(s) = <<>> /\ ~isLoading

\* !query.trim()
IsBlank(s) == Trim(s) = <<>>

\* Array.prototype.findIndex, 1-based, over the set of matching indices:
\* the first of them; 0 when nothing matches
FindIndex(matching) ==
    IF matching = {} THEN 0
    ELSE CHOOSE i \in matching : \A j \in matching : i <= j

\* Array.prototype.splice(i, 1)
RemoveAt(seq, i) == SubSeq(seq, 1, i - 1) \o SubSeq(seq, i + 1, Len(seq))

\* Array.prototype.slice(0, n)
Slice(seq, n) == SubSeq(seq, 1, IF Len(seq) < n THEN Len(seq) ELSE n)

(***************************************************************************)
(* errorHandler                                                            *)
(***************************************************************************)
\* The error values the code can catch: the object makeRequest throws for a
\* non-ok response, or a JavaScript Error (TypeError of fetch, SyntaxError of
\* response.json) that has a message and neither response nor request.
ResponseError(st, data) ==
    [hasResponse |-> TRUE, status |-> st, detail |-> data.detail,
     dataMessage |-> data.message, hasRequest |-> FALSE, message |-> ""]

JsError(m) ==
    [hasResponse |-> FALSE, status |-> 0, detail |-> "",
     dataMessage |-> "", hasRequest |-> FALSE, message |-> m]

FetchTypeError == JsError("Failed to fetch")

JsonSyntaxError == JsError("Unexpected token < in JSON at position 0")

\* errorHandler.handleApiError: the message it shows
ApiErrorMessage(error, defaultMessage) ==
    IF error.hasResponse
    THEN IF error.detail # "" THEN error.detail
         ELSE IF error.dataMessage # "" THEN error.dataMessage
         ELSE "Server error: " \o ToString(error.status)
    ELSE IF error.hasRequest
    THEN "Network error. Please check your connection and try again."
    ELSE IF error.message # "" THEN error.message
    ELSE defaultMessage

\* errorHandler.show: the modal it leaves
ShownModal(m) == [show |-> TRUE, message |-> m]

(***************************************************************************)
(* localStorage records                                                    *)
(***************************************************************************)
RecentCap == 10

HistoryCap == 20

\* the entry pushed at the end instead of unshifted to the front
SaveRecentSearchAtEnd(list, query, now) ==
    LET existingIndex == FindIndex({k \in 1..Len(list) : list[k].query = query})
        removed == IF existingIndex > 0 THEN RemoveAt(list, existingIndex) ELSE list
    IN  Slice(removed \o <<[query |-> query, timestamp |-> now]>>, RecentCap)

SaveRecentSearchUncapped(list, query, now) ==
    LET existingIndex == FindIndex({k \in 1..Len(list) : list[k].query = query})
        removed == IF existingIndex > 0 THEN RemoveAt(list, existingIndex) ELSE list
    IN  <<[query |-> query, timestamp |-> now]>> \o removed

SaveRecentSearchNoDedup(list, query, now) ==
    Slice(<<[query |-> query, timestamp |-> now]>> \o list, RecentCap)

\* searchManager.saveRecentSearch
SaveRecentSearch(list, query, now) ==
    LET existingIndex == FindIndex({k \in 1..Len(list) : list[k].query = query})
        removed == IF existingIndex > 0 THEN RemoveAt(list, existingIndex) ELSE list
    IN  Slice(<<[query |-> query, timestamp |-> now]>> \o removed, RecentCap)

SaveQuestionHistoryDedup(list, question, answer, now, query) ==
    LET existingIndex == FindIndex({k \in 1..Len(list) : list[k].question = question})
        removed == IF existingIndex > 0 THEN RemoveAt(list, existingIndex) ELSE list
    IN  Slice(<<[question |-> question, answer |-> answer,
                 timestamp |-> now, query |-> query]>> \o removed, HistoryCap)

\* questionManager.saveQuestionHistory
SaveQuestionHistory(list, question, answer, now, query) ==
    Slice(<<[question |-> question, answer |-> answer,
             timestamp |-> now, query |-> query]>> \o list, HistoryCap)

\* article.url || `${article.title}-${article.source}`
ArticleId(article) ==
    IF article.url # "" THEN article.url
    ELSE article.title \o "-" \o article.source

\* the predicate without its id disjunct
BookmarkMatchesUrlOnly(b, article) ==
    b.url # "" /\ b.url = article.url

\* the predicate toggleBookmark hands to findIndex
BookmarkMatches(b, article) ==
    \/ b.url # "" /\ b.url = article.url
    \/ b.id # "" /\ b.id = ArticleId(article)

\* the record toggleBookmark pushes; url: article.url || null, null being ""
NewBookmark(article, now) ==
    [id |-> ArticleId(article), title |-> article.title, url |-> article.url,
     source |-> article.source, summary |-> article.summary,
     bookmarked_at |-> now]

\* newsDisplay.toggleBookmark: the list it writes back
ToggledBookmarks(list, article, now) ==
    LET existingIndex == FindIndex({k \in 1..Len(list) : BookmarkMatches(list[k], article)})
    IN  IF existingIndex > 0 THEN RemoveAt(list, existingIndex)
        ELSE Append(list, NewBookmark(article, now))

(***************************************************************************)
(* Renderer                                                                *)
(***************************************************************************)
Welcome == [view |-> "welcome", list |-> <<>>]

\* newsDisplay.renderArticles
RenderArticles(list) ==
    IF list = <<>> THEN [view |-> "no-results", list |-> <<>>]
    ELSE [view |-> "articles", list |-> list]

AnswerHidden == [show |-> FALSE, answer |-> ""]

\* answerDisplay.show
AnswerShown(answer) == [show |-> TRUE, answer |-> answer]

\* answerDisplay.hide keeps the markup and hides the container
HideAnswer(c) == [c EXCEPT !.show = FALSE]

(***************************************************************************)
(* Initial state: the script has loaded and the listeners are installed.   *)
(***************************************************************************)
\* no healthCheck.check has returned yet
NoCheck == [returned |-> FALSE, status |-> "none"]

Snapshot == [articles |-> articles, hasArticles |-> hasArticles,
             lastQuery |-> lastQuery, currentAnswer |-> currentAnswer,
             recentSearches |-> recentSearches,
             questionHistory |-> questionHistory, bookmarks |-> bookmarks]

InitSession ==
    /\ isLoading = FALSE
    /\ hasArticles = FALSE
    /\ lastQuery = <<>>
    /\ articles = <<>>
    /\ currentAnswer = Null
    /\ statusDot = "ready"
    /\ errorModal = [show |-> FALSE, message |-> ""]
    /\ newsContainer = Welcome
    /\ answerContainer = AnswerHidden
    /\ bookmarks = <<>>
    /\ recentSearches = <<>>
    /\ questionHistory = <<>>
    /\ calls = 0
    /\ clock = 0
    /\ notified = NoNotes
    /\ event = Event("init", <<>>, "none", NoResp)
    /\ atCall = [articles |-> <<>>, hasArticles |-> FALSE, lastQuery |-> <<>>,
                 currentAnswer |-> Null, recentSearches |-> <<>>,
                 questionHistory |-> <<>>, bookmarks |-> <<>>]
    /\ preToggle = <<>>
    /\ questionInput = <<>>
    /\ draftQuestion = <<>>
    /\ newsQuery = <<>>
    /\ draftQuery = <<>>
    /\ periodic = FALSE
    /\ checked = NoCheck

\* the session with the health monitor left out: no probe is ever issued
Init ==
    /\ InitSession
    /\ inflight = <<>>
    /\ probes = 0
    /\ initHealthy = "none"

(***************************************************************************)
(* Transport client: apiClient.makeRequest up to its first await.          *)
(***************************************************************************)
Request(o, a) == [op |-> o, arg |-> a, pc |-> "fetch", ok |-> FALSE, status |-> 0]

\* the user-initiated requests awaiting the network
UserInflight == { i \in 1..Len(inflight) : inflight[i].op \in {"search", "ask"} }

\* loadingManager.show + apiClient.fetchNews / askQuestion up to await fetch();
\* cap bounds the number of calls the model follows
StartRequestWithin(o, a, cap) ==
    /\ calls < cap
    /\ Len(inflight) < MaxInflight
    /\ isLoading' = TRUE
    /\ statusDot' = "loading"
    /\ inflight' = Append(inflight, Request(o, a))
    /\ calls' = calls + 1
    /\ atCall' = Snapshot

StartRequest(o, a) == StartRequestWithin(o, a, MaxCalls)

(***************************************************************************)
(* searchManager.performSearch, up to await apiClient.fetchNews(query)     *)
(***************************************************************************)
\* the guard of performSearch left out
SearchBusyNoGuard == FALSE

\* if (appState.isLoading) return;   (performSearch)
SearchBusy == isLoading

PerformSearchWithin(query, cap) ==
    /\ notified' = NoNotes
    /\ UNCHANGED <<draftVars, healthVars>>
    /\ IF IsBlank(query)
       THEN /\ errorModal' = ShownModal("Please enter a search query.")
            /\ statusDot' = "error"
            /\ event' = Event("performSearch", query, "validation", NoResp)
            /\ UNCHANGED <<appVars, newsContainer, answerContainer, storeVars,
                           netVars, clock, histVars>>
       ELSE IF SearchBusy
       THEN /\ event' = Event("performSearch", query, "dropped", NoResp)
            /\ UNCHANGED <<appVars, domVars, storeVars, netVars, clock, histVars>>
       ELSE /\ StartRequestWithin("search", query, cap)
            /\ answerContainer' = HideAnswer(answerContainer)
            /\ event' = Event("performSearch", query, "started", NoResp)
            /\ UNCHANGED <<hasArticles, lastQuery, articles, currentAnswer,
                           errorModal, newsContainer, storeVars, clock, preToggle>>

PerformSearch(query) == PerformSearchWithin(query, MaxCalls)

(***************************************************************************)
(* questionManager.askQuestion, up to await apiClient.askQuestion(question)*)
(***************************************************************************)
\* the precondition test left out
NoArticlesNever == FALSE

\* if (!appState.hasArticles)
NoArticles == ~hasArticles

\* the guard of askQuestion left out
AskBusyNoGuard == FALSE

\* if (appState.isLoading) return;   (askQuestion)
AskBusy == isLoading

AskQuestionWithin(question, cap) ==
    /\ notified' = NoNotes
    /\ UNCHANGED <<draftVars, healthVars>>
    /\ IF IsBlank(question)
       THEN /\ errorModal' = ShownModal("Please enter a question.")
            /\ statusDot' = "error"
            /\ event' = Event("askQuestion", question, "validation", NoResp)
            /\ UNCHANGED <<appVars, newsContainer, answerContainer, storeVars,
                           netVars, clock, histVars>>
       ELSE IF NoArticles
       THEN /\ errorModal' = ShownModal("Please search for news articles first.")
            /\ statusDot' = "error"
            /\ event' = Event("askQuestion", question, "precondition", NoResp)
            /\ UNCHANGED <<appVars, newsContainer, answerContainer, storeVars,
                           netVars, clock, histVars>>
       ELSE IF AskBusy
       THEN /\ event' = Event("askQuestion", question, "dropped", NoResp)
            /\ UNCHANGED <<appVars, domVars, storeVars, netVars, clock, histVars>>
       ELSE /\ StartRequestWithin("ask", question, cap)
            /\ event' = Event("askQuestion", question, "started", NoResp)
            /\ UNCHANGED <<hasArticles, lastQuery, articles, currentAnswer,
                           errorModal, newsContainer, answerContainer, storeVars,
                           clock, preToggle>>

AskQuestion(question) == AskQuestionWithin(question, MaxCalls)

(***************************************************************************)
(* The continuations that run when the awaited request settles.  Each runs *)
(* the rest of the try block or the catch block, then the finally block    *)
(* (loadingManager.hide).                                                  *)
(***************************************************************************)
\* loadingManager.hide forgetting the flag
LoadingKept == isLoading

\* loadingManager.hide: appState.isLoading = false
LoadingAfterHide == FALSE

\* loadingManager.hide leaving the status indicator alone
StatusKept == statusDot

\* loadingManager.hide: statusManager.setReady()
StatusAfterHide == "ready"

\* the test of the article list left out
HasResultsAlways(data) == TRUE

\* if (response.articles && response.articles.length > 0)
HasResults(data) == data.articles # <<>>

\* performSearch after "const response = await apiClient.fetchNews(query)"
SearchReturned(i, data) ==
    LET query == inflight[i].arg IN
    /\ IF HasResults(data)
       THEN /\ articles' = data.articles
            /\ hasArticles' = TRUE
            /\ lastQuery' = query
            /\ newsContainer' = RenderArticles(data.articles)
            /\ recentSearches' = SaveRecentSearch(recentSearches, query, clock)
            /\ notified' =
                   <<Note("Found " \o ToString(data.total_count) \o " articles",
                          "success")>>
       ELSE /\ newsContainer' = RenderArticles(<<>>)
            /\ notified' = <<Note("No articles found for your search", "info")>>
            /\ UNCHANGED <<articles, hasArticles, lastQuery, recentSearches>>
    /\ isLoading' = LoadingAfterHide
    /\ statusDot' = StatusAfterHide
    /\ inflight' = RemoveAt(inflight, i)
    /\ UNCHANGED <<currentAnswer, errorModal, answerContainer, bookmarks,
                   questionHistory, calls, clock, histVars, draftVars, healthVars>>

\* performSearch: catch (error) { errorHandler.handleApiError(...) } finally
SearchFailed(i, error) ==
    LET message == ApiErrorMessage(error, "Failed to fetch news articles") IN
    /\ errorModal' = ShownModal(message)
    /\ notified' = <<Note(message, "error")>>
    /\ isLoading' = LoadingAfterHide
    /\ statusDot' = StatusAfterHide
    /\ inflight' = RemoveAt(inflight, i)
    /\ UNCHANGED <<hasArticles, lastQuery, articles, currentAnswer,
                   newsContainer, answerContainer, storeVars, calls, clock,
                   histVars, draftVars, healthVars>>

HasAnswerAlways(data) == TRUE

\* if (response.answer): a missing or empty answer is falsy
HasAnswer(data) == data.answer # ""

\* askQuestion after "const response = await apiClient.askQuestion(question)"
AskReturned(i, data) ==
    LET question == inflight[i].arg IN
    /\ IF HasAnswer(data)
       THEN /\ answerContainer' = AnswerShown(data.answer)
            /\ currentAnswer' = data
            /\ questionInput' = <<>>
            /\ questionHistory' = SaveQuestionHistory(questionHistory, question,
                                        data.answer, clock, lastQuery)
            /\ notified' = <<Note("Question answered successfully", "success")>>
            /\ UNCHANGED errorModal
       ELSE /\ errorModal' =
                   ShownModal("No answer received. Please try a different question.")
            /\ notified' = <<Note("No answer received", "error")>>
            /\ UNCHANGED <<answerContainer, currentAnswer, questionHistory,
                           questionInput>>
    /\ isLoading' = LoadingAfterHide
    /\ statusDot' = StatusAfterHide
    /\ inflight' = RemoveAt(inflight, i)
    /\ UNCHANGED <<hasArticles, lastQuery, articles, newsContainer, bookmarks,
                   recentSearches, calls, clock, histVars, draftQuestion,
                   newsQuery, draftQuery, healthVars>>

\* askQuestion: catch (error) { errorHandler.handleApiError(...) } finally
AskFailed(i, error) ==
    LET message == ApiErrorMessage(error, "Failed to get answer") IN
    /\ errorModal' = ShownModal(message)
    /\ notified' = <<Note(message, "error")>>
    /\ isLoading' = LoadingAfterHide
    /\ statusDot' = StatusAfterHide
    /\ inflight' = RemoveAt(inflight, i)
    /\ UNCHANGED <<hasArticles, lastQuery, articles, currentAnswer,
                   newsContainer, answerContainer, storeVars, calls, clock,
                   histVars, draftVars, healthVars>>

(***************************************************************************)
(* healthCheck.check after "await apiClient.checkHealth()", and its two    *)
(* callers: the interval callback of startPeriodicCheck, which discards    *)
(* the result, and app.init, which awaits the initial check.               *)
(***************************************************************************)
MaxProbes == 3

\* check: setReady and return true, or the catch: setError and return false
CheckResult(ok) == [returned |-> ok, status |-> IF ok THEN "ready" ELSE "error"]

\* the check issued by the interval callback has settled
HealthChecked(i, ok) ==
    /\ checked' = CheckResult(ok)
    /\ statusDot' = CheckResult(ok).status
    /\ inflight' = RemoveAt(inflight, i)
    /\ notified' = NoNotes
    /\ UNCHANGED <<appVars, errorModal, newsContainer, answerContainer,
                   storeVars, calls, clock, histVars, draftVars,
                   probes, periodic, initHealthy>>

PeriodicAlways(isHealthy) == TRUE

\* app.init: if (isHealthy) healthCheck.startPeriodicCheck()
StartsPeriodic(isHealthy) == isHealthy

\* app.init after "const isHealthy = await healthCheck.check()", up to its
\* statusManager.setReady()
InitChecked(i, ok) ==
    /\ checked' = CheckResult(ok)
    /\ initHealthy' = (IF ok THEN "yes" ELSE "no")
    /\ periodic' = StartsPeriodic(ok)
    /\ notified' = IF ok THEN <<Note("AI News Agent is ready!", "success")>>
                   ELSE <<Note("Server connection issues detected", "error")>>
    /\ statusDot' = "ready"
    /\ inflight' = RemoveAt(inflight, i)
    /\ UNCHANGED <<appVars, errorModal, newsContainer, answerContainer,
                   storeVars, calls, clock, histVars, draftVars, probes>>

TickBusyNoGuard == FALSE

\* the interval callback: if (!appState.isLoading)
TickBusy == isLoading

\* the interval of startPeriodicCheck fires
HealthTick ==
    /\ periodic
    /\ notified' = NoNotes
    /\ IF TickBusy
       THEN /\ event' = Event("healthTick", <<>>, "skipped", NoResp)
            /\ UNCHANGED <<inflight, probes>>
       ELSE /\ probes < MaxProbes
            /\ Len(inflight) < MaxInflight
            /\ inflight' = Append(inflight, Request("health", <<>>))
            /\ probes' = probes + 1
            /\ event' = Event("healthTick", <<>>, "probed", NoResp)
    /\ UNCHANGED <<appVars, domVars, storeVars, calls, clock, histVars,
                   draftVars, periodic, checked, initHealthy>>

\* the request's promise is rejected with error
Failed(i, error) ==
    IF inflight[i].op = "search" THEN SearchFailed(i, error)
    ELSE IF inflight[i].op = "ask" THEN AskFailed(i, error)
    ELSE IF inflight[i].op = "health" THEN HealthChecked(i, FALSE)
    ELSE InitChecked(i, FALSE)

\* the request's promise is fulfilled with the decoded body
Returned(i, data) ==
    IF inflight[i].op = "search" THEN SearchReturned(i, data)
    ELSE IF inflight[i].op = "ask" THEN AskReturned(i, data)
    ELSE IF inflight[i].op = "health" THEN HealthChecked(i, TRUE)
    ELSE InitChecked(i, TRUE)

(***************************************************************************)
(* apiClient.makeRequest after its awaits                                  *)
(***************************************************************************)
SettledOp(i) ==
    IF inflight[i].op = "search" THEN "searchSettled"
    ELSE IF inflight[i].op = "ask" THEN "askSettled"
    ELSE IF inflight[i].op = "health" THEN "healthSettled"
    ELSE "initSettled"

\* "await fetch(url, ...)" settles for request i
FetchSettle(i, r) ==
    /\ i \in 1..Len(inflight)
    /\ inflight[i].pc = "fetch"
    /\ IF r.kind = "reject"
       THEN /\ Failed(i, FetchTypeError)
            /\ event' = Event(SettledOp(i), inflight[i].arg, "settled", Rejected)
       ELSE /\ inflight' = [inflight EXCEPT ![i] =
                   [@ EXCEPT !.pc = "json", !.ok = r.ok, !.status = r.status]]
            /\ event' = Event("fetchSettled", inflight[i].arg, "response", NoResp)
            /\ notified' = NoNotes
            /\ UNCHANGED <<appVars, domVars, storeVars, calls, clock, histVars,
                           draftVars, healthVars>>

\* the status test left out
ResponseOkAlways(req) == TRUE

\* response.ok, as the response that fetch() delivered for the request has it
ResponseOk(req) == req.ok

\* "await response.json()" settles for request i, then the ok test
JsonSettle(i, body) ==
    /\ i \in 1..Len(inflight)
    /\ inflight[i].pc = "json"
    /\ event' = Event(SettledOp(i), inflight[i].arg, "settled",
                      Resp(inflight[i].ok, inflight[i].status, body))
    /\ IF ~body.decodable THEN Failed(i, JsonSyntaxError)
       ELSE IF ~ResponseOk(inflight[i])
       THEN Failed(i, ResponseError(inflight[i].status, body))
       ELSE Returned(i, body)

(***************************************************************************)
(* newsDisplay.toggleBookmark, called by the bookmark button of a rendered *)
(* article (data-index, here 1-based)                                      *)
(***************************************************************************)
ToggleBookmark(index) ==
    /\ index \in 1..Len(newsContainer.list)
    /\ IF index > Len(articles)
       THEN /\ event' = Event("toggleBookmark", <<>>, "none", NoResp)
            /\ notified' = NoNotes
            /\ UNCHANGED <<bookmarks, preToggle>>
       ELSE LET article == articles[index]
                removing == \E k \in 1..Len(bookmarks) :
                                BookmarkMatches(bookmarks[k], article)
            IN  /\ bookmarks' = ToggledBookmarks(bookmarks, article, clock)
                /\ preToggle' = bookmarks
                /\ event' = Event("toggleBookmark", article, "toggled", NoResp)
                /\ notified' = IF removing
                               THEN <<Note("Bookmark removed", "info")>>
                               ELSE <<Note("Article bookmarked", "success")>>
    /\ UNCHANGED <<appVars, domVars, recentSearches, questionHistory, netVars,
                   clock, atCall, draftVars, healthVars>>

\* time passes: new Date() returns a later instant
Tick ==
    /\ clock < MaxClock
    /\ clock' = clock + 1
    /\ event' = Event("tick", <<>>, "none", NoResp)
    /\ notified' = NoNotes
    /\ UNCHANGED <<appVars, domVars, storeVars, netVars, histVars, draftVars, healthVars>>

Next ==
    \/ \E q \in Queries : PerformSearch(q)
    \/ \E q \in Questions : AskQuestion(q)
    \/ \E i \in 1..MaxInflight, r \in FetchOutcomes : FetchSettle(i, r)
    \/ \E i \in 1..MaxInflight, b \in Bodies : JsonSettle(i, b)

Spec == Init /\ [][Next]_vars

(***************************************************************************)
(* The bookmark store: searches that succeed, the bookmark buttons of the  *)
(* rendered articles, and the passing of time between them (the timestamps *)
(* of the records are the only use the code makes of the clock).           *)
(***************************************************************************)
BookmarkLists == {<<ArtU>>, <<ArtU2, ArtAB_C>>, <<ArtAB_C, ArtA_BC>>}

MaxIndex == 2

NextBookmarks ==
    \/ PerformSearch(<<"x">>)
    \/ \E i \in 1..MaxInflight : FetchSettle(i, [kind |-> "response", ok |-> TRUE, status |-> 200])
    \/ \E i \in 1..MaxInflight, l \in BookmarkLists : JsonSettle(i, Body(l, "", ""))
    \/ \E k \in 1..MaxIndex : ToggleBookmark(k)
    \/ Tick

SpecBookmarks == Init /\ [][NextBookmarks]_vars

(***************************************************************************)
(* The recent-search list: searches that succeed one after the other.  The *)
(* queries are "x", "xx", "xxx", ...; a search is for the next query not   *)
(* searched yet or, a bounded number of times, for one searched before.    *)
(***************************************************************************)
MaxRepeats == 2

QueryNo(k) == [j \in 1..k |-> "x"]

\* one query more than the list can hold
NumQueries == RecentCap + 1

\* the number of different queries searched so far: every search succeeds, so
\* the list holds the latest
QueriesSoFar ==
    IF recentSearches = <<>> THEN 0
    ELSE CHOOSE n \in 1..NumQueries :
            /\ \E k \in 1..Len(recentSearches) : Len(recentSearches[k].query) = n
            /\ \A k \in 1..Len(recentSearches) : Len(recentSearches[k].query) <= n

RecentChoices ==
    (IF QueriesSoFar < NumQueries THEN {QueriesSoFar + 1} ELSE {}) \cup
    (IF calls - QueriesSoFar < MaxRepeats THEN 1..QueriesSoFar ELSE {})

OkResponse == [kind |-> "response", ok |-> TRUE, status |-> 200]

NextRecent ==
    \/ /\ ~isLoading
       /\ \E k \in RecentChoices :
              PerformSearchWithin(QueryNo(k), NumQueries + MaxRepeats)
    \/ \E i \in 1..MaxInflight : FetchSettle(i, OkResponse)
    \/ \E i \in 1..MaxInflight : JsonSettle(i, Body(<<ArtU>>, "", ""))

SpecRecent == Init /\ [][NextRecent]_vars

(***************************************************************************)
(* The question history: one search, then questions answered one after the *)
(* other.  The questions are "w", "ww", "www", ...; a question is the next *)
(* one not asked yet or, a bounded number of times, the one asked last.    *)
(***************************************************************************)
QuestionNo(k) == [j \in 1..k |-> "w"]

\* one question more than the history can hold
NumQuestions == HistoryCap + 1

\* the number of different questions asked so far: the latest one is at the
\* front of the history
QuestionsSoFar ==
    IF questionHistory = <<>> THEN 0 ELSE Len(questionHistory[1].question)

\* calls counts the search and every question asked
HistoryChoices ==
    (IF QuestionsSoFar < NumQuestions THEN {QuestionsSoFar + 1} ELSE {}) \cup
    (IF QuestionsSoFar > 0 /\ calls - 1 - QuestionsSoFar < MaxRepeats
     THEN {QuestionsSoFar} ELSE {})

NextHistory ==
    \/ /\ ~isLoading /\ ~hasArticles
       /\ PerformSearchWithin(<<"x">>, 1)
    \/ /\ ~isLoading /\ hasArticles
       /\ \E k \in HistoryChoices :
              AskQuestionWithin(QuestionNo(k), 1 + NumQuestions + MaxRepeats)
    \/ \E i \in 1..MaxInflight : FetchSettle(i, OkResponse)
    \/ \E i \in 1..MaxInflight : JsonSettle(i, Body(<<ArtU>>, "ans", ""))

SpecHistory == Init /\ [][NextHistory]_vars

(***************************************************************************)
(* The question draft: the 'input' listener of the question field, the ask *)
(* button, and a reload of the page, which starts the program again over   *)
(* the same localStorage.                                                  *)
(***************************************************************************)
\* elements.questionInput 'input' listener: the user has edited the field
TypeQuestion(text) ==
    /\ questionInput' = text
    /\ draftQuestion' = text
    /\ event' = Event("typeQuestion", text, "saved", NoResp)
    /\ notified' = NoNotes
    /\ UNCHANGED <<appVars, domVars, storeVars, netVars, clock, histVars,
                   newsQuery, draftQuery, healthVars>>

\* elements.newsQuery 'input' listener: the user has edited the field
TypeQuery(text) ==
    /\ newsQuery' = text
    /\ draftQuery' = text
    /\ event' = Event("typeQuery", text, "saved", NoResp)
    /\ notified' = NoNotes
    /\ UNCHANGED <<appVars, domVars, storeVars, netVars, clock, histVars,
                   questionInput, draftQuestion, healthVars>>

\* elements.askBtn 'click' listener
AskClick == AskQuestion(questionInput)

\* elements.searchBtn 'click' listener
SearchClick == PerformSearch(newsQuery)

\* the field of a page just loaded, before any draft is put into it
EmptyField == <<>>

LoadDraftTrimmed(draft, initial) == IF draft # <<>> THEN Trim(draft) ELSE initial

\* "if (draft) { field.value = draft }": an empty or missing draft leaves
\* the field as the page has it
LoadDraft(draft, initial) == IF draft # <<>> THEN draft ELSE initial

\* the page is loaded again: the session starts over, pending requests are
\* gone with the old page, localStorage is kept, and eventListeners.init puts
\* the non-empty stored drafts back into their fields
Reload ==
    /\ isLoading' = FALSE
    /\ hasArticles' = FALSE
    /\ lastQuery' = <<>>
    /\ articles' = <<>>
    /\ currentAnswer' = Null
    /\ statusDot' = "ready"
    /\ errorModal' = [show |-> FALSE, message |-> ""]
    /\ newsContainer' = Welcome
    /\ answerContainer' = AnswerHidden
    /\ inflight' = <<>>
    /\ questionInput' = LoadDraft(draftQuestion, EmptyField)
    /\ newsQuery' = LoadDraft(draftQuery, EmptyField)
    /\ event' = Event("reload", <<>>, "none", NoResp)
    /\ notified' = NoNotes
    /\ UNCHANGED <<storeVars, calls, clock, histVars, draftQuestion, draftQuery,
                   healthVars>>

NextDrafts ==
    \/ \E text \in Queries : TypeQuery(text)
    \/ SearchClick
    \/ \E text \in Questions : TypeQuestion(text)
    \/ AskClick
    \/ \E i \in 1..MaxInflight : FetchSettle(i, OkResponse)
    \/ \E i \in 1..MaxInflight :
          \E answer \in {"", "ans"} : JsonSettle(i, Body(<<ArtU>>, answer, ""))
    \/ Reload

SpecDrafts == Init /\ [][NextDrafts]_vars

(***************************************************************************)
(* The health monitor beside the user's requests.  app.init issues the     *)
(* initial check in the task that installs the listeners, so the session   *)
(* starts with that probe in flight.                                       *)
(***************************************************************************)
InitHealth ==
    /\ InitSession
    /\ inflight = <<Request("initHealth", <<>>)>>
    /\ probes = 1
    /\ initHealthy = "pending"

HealthBodies == {Undecodable, Body(<<ArtU>>, "ans", "")}

NextHealth ==
    \/ PerformSearch(<<"x">>)
    \/ AskQuestion(<<"w">>)
    \/ HealthTick
    \/ \E i \in 1..MaxInflight, r \in FetchOutcomes : FetchSettle(i, r)
    \/ \E i \in 1..MaxInflight, b \in HealthBodies : JsonSettle(i, b)

SpecHealth == InitHealth /\ [][NextHealth]_vars

(***************************************************************************)
(* The whole session: searches (blank ones and ones with blanks around the *)
(* query), questions, health checks and bookmark toggles.                  *)
(***************************************************************************)
SessionQueries == {<<" ">>, <<" ", "y">>}

SessionBodies == {Body(<<ArtU>>, "ans", ""), Body(<<>>, "", "")}

NextSession ==
    \/ \E q \in SessionQueries : PerformSearch(q)
    \/ AskQuestion(<<"w">>)
    \/ HealthTick
    \/ \E i \in 1..MaxInflight : FetchSettle(i, OkResponse)
    \/ \E i \in 1..MaxInflight, b \in SessionBodies : JsonSettle(i, b)
    \/ ToggleBookmark(1)

SpecSession == InitHealth /\ [][NextSession]_vars

(***************************************************************************)
(* Every transport call eventually settles: the pending await of a request *)
(* in flight is eventually resumed.                                        *)
(***************************************************************************)
Settle ==
    \/ \E i \in 1..MaxInflight, r \in FetchOutcomes : FetchSettle(i, r)
    \/ \E i \in 1..MaxInflight, b \in Bodies : JsonSettle(i, b)

FairSpec == Spec /\ WF_vars(Settle)

(***************************************************************************)
(* Properties                                                              *)
(***************************************************************************)
UserOps == {"performSearch", "askQuestion"}

SettledOps == {"searchSettled", "askSettled"}

\* C1: at most one user-initiated request (search or ask) is in flight in
\* every reachable state, and a performSearch invoked while isLoading is true
\* issues no transport call.
C1_AtMostOneInFlight ==
    /\ [](Cardinality(UserInflight) <= 1)
    /\ [][(isLoading /\ event'.op = "performSearch")
            => (calls' = calls /\ inflight' = inflight)]_vars

\* C1 witness: a second performSearch was invoked while the first search is
\* in flight, and one call has been made in total.
C1_Witness ==
    /\ event.op = "performSearch" /\ event.outcome = "dropped"
    /\ isLoading /\ calls = 1
    /\ Len(inflight) = 1 /\ inflight[1].op = "search"

\* C2: performSearch with a query whose trimmed value is empty issues no
\* transport call and leaves isLoading, hasArticles, lastQuery, articles and
\* currentAnswer unchanged.
C2_BlankSearchNoEffect ==
    [][(event'.op = "performSearch" /\ Trim(event'.arg) = <<>>)
        => (calls' = calls /\ inflight' = inflight /\ UNCHANGED appVars)]_vars

\* C2 witness: performSearch(" ") was invoked while a request is in flight
\* and articles are loaded.
C2_Witness ==
    /\ event.op = "performSearch" /\ event.arg = <<" ">>
    /\ isLoading /\ hasArticles

\* C3: when the transport call of a performSearch or askQuestion settles,
\* isLoading is false again, whatever the outcome; and isLoading true always
\* leads to isLoading false.
C3_GuardReleased ==
    /\ [][(event'.op \in SettledOps /\ event' # event) => ~isLoading']_vars
    /\ (isLoading ~> ~isLoading)

\* C3 witness: a search ended in the catch block and the guard is free.
C3_Witness ==
    /\ event.op = "searchSettled" /\ event.resp.rejected
    /\ ~isLoading /\ calls > 0

PreconditionMessage == "Please search for news articles first."

QuestionValidationMessage == "Please enter a question."

\* C4 as claimed: askQuestion called while hasArticles is false ends in the
\* PreconditionError outcome for every question text, blank text included,
\* and issues no transport call.
C4_AlwaysPrecondition ==
    [][(event'.op = "askQuestion" /\ ~hasArticles)
        => (/\ errorModal' = ShownModal(PreconditionMessage)
            /\ calls' = calls /\ inflight' = inflight)]_vars

\* C4 amended: askQuestion called while hasArticles is false issues no
\* transport call; it ends in the PreconditionError outcome for every
\* non-blank question text, and in the ValidationError outcome ("enter a
\* question") for empty and whitespace-only text.
C4_PreconditionAfterValidation ==
    [][(event'.op = "askQuestion" /\ ~hasArticles)
        => (/\ errorModal' = ShownModal(IF Trim(event'.arg) = <<>>
                                        THEN QuestionValidationMessage
                                        ELSE PreconditionMessage)
            /\ statusDot' = "error"
            /\ calls' = calls /\ inflight' = inflight)]_vars

\* C4 witness: a non-blank question was asked before any successful search
\* and the precondition message is shown.
C4_Witness ==
    /\ event.op = "askQuestion" /\ Trim(event.arg) # <<>>
    /\ ~hasArticles /\ errorModal = ShownModal(PreconditionMessage)

\* C5: a performSearch or askQuestion call that passes validation while
\* isLoading is true changes no session field, no persisted record and nothing
\* shown, reports nothing, and is not queued: the settlement of the request in
\* flight issues no call.
C5_DroppedWhileLoading ==
    /\ [][(/\ isLoading
            /\ event'.op \in UserOps
            /\ Trim(event'.arg) # <<>>
            /\ (event'.op = "askQuestion" => hasArticles))
           => (/\ UNCHANGED <<appVars, domVars, storeVars, netVars>>
               /\ notified' = NoNotes)]_vars
    /\ [][(event'.op \in SettledOps)
           => (calls' = calls /\ Len(inflight') = Len(inflight) - 1)]_vars

\* C5 witness: a valid question was asked while the second search was in
\* flight; two calls have been made in total and one request is in flight.
C5_Witness ==
    /\ event.op = "askQuestion" /\ event.outcome = "dropped"
    /\ hasArticles /\ isLoading /\ calls = 2 /\ Len(inflight) = 1

NoResultsView == [view |-> "no-results", list |-> <<>>]

\* the search settled with a success status and a decoded body
SearchSucceeded(e) ==
    /\ e.op = "searchSettled"
    /\ ~e.resp.rejected /\ e.resp.ok /\ e.resp.body.decodable

\* C6: when a search settles successfully with an empty article list, the
\* renderer is handed an empty list and hasArticles, articles and lastQuery
\* keep the values they had before the search.
C6_EmptyResultKeepsContext ==
    [][(SearchSucceeded(event') /\ event'.resp.body.articles = <<>>)
        => (/\ newsContainer' = NoResultsView
            /\ UNCHANGED <<hasArticles, articles, lastQuery>>
            /\ hasArticles' = atCall.hasArticles
            /\ articles' = atCall.articles
            /\ lastQuery' = atCall.lastQuery)]_vars

\* C6 witness: an empty result arrived after an earlier search had loaded
\* articles, which are still there.
C6_Witness ==
    /\ SearchSucceeded(event) /\ event.resp.body.articles = <<>>
    /\ hasArticles /\ articles # <<>> /\ newsContainer = NoResultsView

\* the transport call of the search failed: no response, or a non-success one
SearchTransportFailed(e) ==
    /\ e.op = "searchSettled"
    /\ (e.resp.rejected \/ ~e.resp.ok)

\* C7: when the transport call of performSearch fails, the error is reported
\* (modal and error notification), articles, hasArticles and lastQuery are
\* what they were before the call, and no RecentSearch record is written.
C7_FailedSearchKeepsState ==
    [][SearchTransportFailed(event')
        => (/\ errorModal'.show
            /\ notified' = <<Note(errorModal'.message, "error")>>
            /\ UNCHANGED <<hasArticles, articles, lastQuery, recentSearches>>
            /\ hasArticles' = atCall.hasArticles
            /\ articles' = atCall.articles
            /\ lastQuery' = atCall.lastQuery
            /\ recentSearches' = atCall.recentSearches)]_vars

\* C7 witness: a non-success response whose body carries articles arrived
\* before any successful search; nothing was loaded.
C7_Witness ==
    /\ SearchTransportFailed(event) /\ ~event.resp.rejected
    /\ event.resp.body.decodable /\ event.resp.body.articles # <<>>
    /\ ~hasArticles /\ articles = <<>> /\ errorModal.show

\* C8: when performSearch(q) settles successfully with a non-empty article
\* list, articles is the returned list, hasArticles is true, lastQuery is q
\* and the recent-search list has an entry for q at its front.
C8_SuccessfulSearchUpdates ==
    [][(SearchSucceeded(event') /\ event'.resp.body.articles # <<>>)
        => (/\ articles' = event'.resp.body.articles
            /\ hasArticles'
            /\ lastQuery' = event'.arg
            /\ Len(recentSearches') > 0
            /\ recentSearches'[1].query = event'.arg)]_vars

\* C8 witness: the second successful search, for " y", is at the front of
\* two recent searches.
C8_Witness ==
    /\ SearchSucceeded(event) /\ event.resp.body.articles # <<>>
    /\ lastQuery = <<" ", "y">> /\ Len(recentSearches) = 2

\* The bookmark identity of an article or of a bookmark, as specified: the
\* url when present and non-empty, else the pair (title, source).
Identity(a) ==
    IF a.url # "" THEN <<"url", a.url>> ELSE <<"composite", a.title, a.source>>

IdentitySet(list) == { Identity(list[k]) : k \in 1..Len(list) }

\* C9: toggleBookmark(a) followed by toggleBookmark(a) restores the bookmark
\* set that preceded the first toggle, read as the set of bookmarked
\* identities.
C9_TogglePairRestores ==
    [][(/\ event.op = "toggleBookmark" /\ event.outcome = "toggled"
        /\ event'.op = "toggleBookmark"
        /\ event'.arg = event.arg)
       => IdentitySet(bookmarks') = IdentitySet(preToggle)]_vars

\* C10: toggling the bookmark of article A never removes or changes the
\* bookmark of an article whose identity differs from the identity of A.
C10_OtherBookmarksKept ==
    [][(event'.op = "toggleBookmark" /\ event'.outcome = "toggled")
        => \A k \in 1..Len(bookmarks) :
              Identity(bookmarks[k]) # Identity(event'.arg)
              => \E j \in 1..Len(bookmarks') : bookmarks'[j] = bookmarks[k]]_vars

\* C11: after any sequence of toggleBookmark operations from an empty store,
\* the bookmark store holds at most one bookmark per id.
C11_OneBookmarkPerId ==
    \A j, k \in 1..Len(bookmarks) :
        bookmarks[j].id = bookmarks[k].id => j = k

\* C11 witness: an article without url was toggled again while two bookmarks
\* are stored, and one of them is a bookmark without url.
C11_Witness ==
    /\ event.op = "toggleBookmark" /\ event.outcome = "toggled"
    /\ event.arg.url = ""
    /\ Len(bookmarks) = 2
    /\ \E k \in 1..2 : bookmarks[k].url = ""
    /\ Len(preToggle) = 1

\* The queries of a recent-search list, in list order.
QueriesOf(list) == [k \in 1..Len(list) |-> list[k].query]

\* seq with every element equal to q left out, the others in their order
Without(seq, q) ==
    LET Other(x) == x # q IN SelectSeq(seq, Other)

SavedSearch(e) == SearchSucceeded(e) /\ e.resp.body.articles # <<>>

\* C12: the recent-search list is unique by exact query string and
\* most-recent-first: a save of q yields q at the front followed by the
\* previous entries other than q in their previous order (as many of them as
\* the list holds), and no query appears twice after any sequence of saves.
C12_RecentUniqueMostRecentFirst ==
    [][SavedSearch(event')
        => (/\ QueriesOf(recentSearches') =
                  Slice(<<event'.arg>> \o Without(QueriesOf(recentSearches), event'.arg),
                        RecentCap)
            /\ \A j, k \in 1..Len(recentSearches') :
                  recentSearches'[j].query = recentSearches'[k].query => j = k)]_vars

\* C12 witness: searching "x", "xx", "x" left the order "x", "xx" with one
\* entry for "x".
C12_Witness ==
    /\ SavedSearch(event) /\ event.arg = QueryNo(1)
    /\ calls = 3
    /\ QueriesOf(recentSearches) = <<QueryNo(1), QueryNo(2)>>

\* C13: the recent-search list never holds more than 10 entries after any
\* sequence of successful searches; when a query not in a full list is saved,
\* the oldest (last) entry is the one evicted and the 10 most recent remain.
C13_RecentCappedOldestEvicted ==
    [][/\ Len(recentSearches') <= 10
       /\ (/\ SavedSearch(event')
           /\ Len(recentSearches) = 10
           /\ \A k \in 1..10 : recentSearches[k].query # event'.arg)
          => (/\ Len(recentSearches') = 10
              /\ recentSearches'[1].query = event'.arg
              /\ \A k \in 1..9 : recentSearches'[k + 1] = recentSearches[k]
              /\ \A k \in 1..10 :
                    recentSearches'[k].query # recentSearches[10].query)]_vars

\* C13 witness: the eleventh distinct query has been saved; the list holds
\* queries 11 down to 2 and the first query is gone.
C13_Witness ==
    /\ SavedSearch(event) /\ event.arg = QueryNo(11)
    /\ QueriesOf(recentSearches) = [k \in 1..10 |-> QueryNo(12 - k)]

AskAnswered(e) ==
    /\ e.op = "askSettled"
    /\ ~e.resp.rejected /\ e.resp.ok /\ e.resp.body.decodable
    /\ e.resp.body.answer # ""

\* C14: every answered question is inserted at the front of the history, the
\* earlier entries follow in their order, at most 20 are kept, and nothing is
\* deduplicated: the history grows by one (up to 20) even when the question
\* is already in it.
C14_HistoryFrontInsertCapped ==
    [][AskAnswered(event')
        => (/\ Len(questionHistory') =
                  (IF Len(questionHistory) < 20 THEN Len(questionHistory) + 1 ELSE 20)
            /\ questionHistory'[1].question = event'.arg
            /\ questionHistory'[1].answer = event'.resp.body.answer
            /\ \A k \in 2..Len(questionHistory') :
                  questionHistory'[k] = questionHistory[k - 1])]_vars

\* C14 witness: 21 questions were answered, the last two of them the same;
\* the history holds the 20 most recent, both entries of the repeated
\* question at the front and the first question gone.
C14_Witness ==
    /\ AskAnswered(event)
    /\ calls = 22
    /\ Len(questionHistory) = 20
    /\ questionHistory[1].question = QuestionNo(20)
    /\ questionHistory[2].question = QuestionNo(20)
    /\ questionHistory[20].question = QuestionNo(2)

\* C15: under any interleaving of searches and questions, the entry recorded
\* for an answered question carries lastQuery as it was when askQuestion was
\* invoked, which is the query of the most recent successful non-empty search.
C15_EntryQueryIsActiveQuery ==
    [][AskAnswered(event')
        => (/\ questionHistory'[1].question = event'.arg
            /\ questionHistory'[1].query = atCall.lastQuery
            /\ atCall.recentSearches # <<>>
            /\ questionHistory'[1].query = atCall.recentSearches[1].query)]_vars

\* C15 witness: a question answered after the searches "x" and " y" is
\* recorded with the query " y".
C15_Witness ==
    /\ AskAnswered(event)
    /\ Len(recentSearches) = 2
    /\ questionHistory[1].query = <<" ", "y">>
    /\ lastQuery = <<" ", "y">>

\* C16: after askQuestion succeeds with a non-empty answer the persisted
\* draft of the question field is empty, so the next startup does not put
\* the answered question back into the question input.
C16_DraftClearedAfterAnswer ==
    [][/\ AskAnswered(event') => draftQuestion' = <<>>
       /\ (AskAnswered(event) /\ event'.op = "reload")
          => questionInput' # event.arg]_vars

SoftAnswer(e) ==
    /\ e.op = "askSettled"
    /\ ~e.resp.rejected /\ e.resp.ok /\ e.resp.body.decodable
    /\ e.resp.body.answer = ""

\* C17: when the ask request settles successfully with an empty or missing
\* answer, an error is reported, currentAnswer is left unchanged, no history
\* entry is appended and the loading guard is released.
C17_EmptyAnswerSoftFailure ==
    [][SoftAnswer(event')
        => (/\ errorModal'.show
            /\ errorModal'.message =
                  "No answer received. Please try a different question."
            /\ \E n \in 1..Len(notified') : notified'[n].type = "error"
            /\ UNCHANGED <<currentAnswer, questionHistory, answerContainer>>
            /\ currentAnswer' = atCall.currentAnswer
            /\ questionHistory' = atCall.questionHistory
            /\ ~isLoading')]_vars

\* C17 witness: an empty answer arrived after an earlier question had been
\* answered; that answer and its history entry are still the only ones.
C17_Witness ==
    /\ SoftAnswer(event)
    /\ currentAnswer # Null
    /\ Len(questionHistory) = 1
    /\ errorModal.show /\ ~isLoading

NonSuccess(e) == e.op \in SettledOps /\ ~e.resp.rejected /\ ~e.resp.ok

\* The message specified for a response with a non-success status.
ServerMessage(resp) ==
    IF resp.body.decodable /\ resp.body.detail # "" THEN resp.body.detail
    ELSE IF resp.body.decodable /\ resp.body.message # "" THEN resp.body.message
    ELSE "Server error: " \o ToString(resp.status)

\* C18: whenever the backend responds with a non-success status, the message
\* shown is the body's detail if present, else its message, else
\* "Server error: <status>", also when the body is not decodable.
C18_NonSuccessMessage ==
    [][NonSuccess(event')
        => (/\ errorModal'.show
            /\ errorModal'.message = ServerMessage(event'.resp)
            /\ notified' = <<Note(ServerMessage(event'.resp), "error")>>)]_vars

TransportFailed(e) == e.op \in SettledOps /\ e.resp.rejected

\* C19: when a search or ask request fails at transport level, the user is
\* shown the connectivity message.
C19_TransportFailureMessage ==
    [][TransportFailed(event')
        => (/\ errorModal'.show
            /\ errorModal'.message =
                  "Network error. Please check your connection and try again.")]_vars

\* The error outcomes of performSearch and askQuestion: a blank input, a
\* question without articles, a request that failed, an empty answer.
ErrorOutcome(e) ==
    \/ e.op \in UserOps /\ e.outcome \in {"validation", "precondition"}
    \/ e.op \in SettledOps
          /\ (e.resp.rejected \/ ~e.resp.ok \/ ~e.resp.body.decodable)
    \/ SoftAnswer(e)

\* C20: every error outcome of performSearch or askQuestion is reported
\* through both channels at once, the modal message and a notification of
\* type error; none is reported through only one of them.
C20_ErrorsOnBothChannels ==
    [][ErrorOutcome(event')
        => (/\ errorModal'.show
            /\ \E n \in 1..Len(notified') : notified'[n].type = "error")]_vars

HealthSettledOps == {"healthSettled", "initSettled"}

\* C21: under any interleaving of timer ticks, probe settlements and user
\* requests, no health probe changes the status indicator while isLoading
\* is true.
C21_ProbeKeepsStatusWhileLoading ==
    [][(isLoading /\ event'.op \in HealthSettledOps)
        => statusDot' = statusDot]_vars

\* C22: a periodic health tick that fires while isLoading is true issues no
\* probe and leaves nothing behind to issue one later: the number of probes
\* grows only in a tick at which isLoading is false, never when a request
\* settles.
C22_BusyTickDropped ==
    [][/\ (isLoading /\ event'.op = "healthTick")
          => (/\ event'.outcome = "skipped"
              /\ probes' = probes
              /\ inflight' = inflight
              /\ UNCHANGED <<periodic, statusDot>>)
       /\ probes' # probes
          => (~isLoading /\ event'.op = "healthTick" /\ probes' = probes + 1)]_vars

\* C22 witness: a tick fired while a search was in flight; the only probe
\* ever issued is the initial one.
C22_Witness ==
    /\ event.op = "healthTick" /\ event.outcome = "skipped"
    /\ isLoading /\ periodic
    /\ probes = 1
    /\ \A i \in 1..Len(inflight) : inflight[i].op = "search"

\* the backend answered the probe with a 2xx status
Answered2xx(resp) == ~resp.rejected /\ resp.ok

\* C23: healthCheck.check returns true and sets status "ready" exactly when
\* the backend answers the probe with a 2xx status, whatever the body;
\* otherwise it returns false and sets status "error"; the session state
\* (isLoading included) is unchanged in both cases.
C23_HealthyIffStatus2xx ==
    [][event'.op \in HealthSettledOps
        => (/\ checked'.returned = Answered2xx(event'.resp)
            /\ checked'.status =
                  (IF Answered2xx(event'.resp) THEN "ready" ELSE "error")
            /\ UNCHANGED appVars)]_vars

\* C28: periodic health checking is started only when the initial health
\* check succeeds: if it fails, no health probe is ever issued afterwards,
\* whatever the backend does later.
C28_PeriodicOnlyAfterHealthyInit ==
    /\ [](periodic => initHealthy = "yes")
    /\ [][initHealthy = "no" => probes' = probes]_vars
    /\ [][event'.op = "initSettled"
            => (periodic' <=> checked'.returned)]_vars

\* C28 witness: the initial check failed, a later search was answered by the
\* backend, and the initial probe is still the only one.
C28_Witness ==
    /\ initHealthy = "no" /\ ~periodic
    /\ hasArticles
    /\ probes = 1

\* C24: for both fields and every text, the draft saved by an edit is the
\* text itself, only an edit changes it (the last saved text wins), and
\* loading it at the next startup puts the same string into the field.
C24_DraftRoundTrip ==
    [][/\ event'.op = "typeQuestion" => draftQuestion' = event'.arg
       /\ event'.op = "typeQuery" => draftQuery' = event'.arg
       /\ draftQuestion' # draftQuestion => event'.op = "typeQuestion"
       /\ draftQuery' # draftQuery => event'.op = "typeQuery"
       /\ event'.op = "reload"
          => (questionInput' = draftQuestion /\ newsQuery' = draftQuery)]_vars

\* C24 witness: after a reload the fields hold drafts with their leading
\* blanks, a blank question and the query " y".
C24_Witness ==
    /\ event.op = "reload"
    /\ questionInput = <<" ">> /\ draftQuestion = <<" ">>
    /\ newsQuery = <<" ", "y">> /\ draftQuery = <<" ", "y">>

\* C25: the validation and precondition checks run before the loading guard:
\* while a request is in flight, performSearch with a blank query and
\* askQuestion with a blank question or without articles still show their
\* error and flip the status indicator to error; they are not dropped.
C25_ChecksBeforeGuard ==
    [][/\ (isLoading /\ event'.op \in UserOps /\ Trim(event'.arg) = <<>>)
          => (/\ event'.outcome = "validation"
              /\ errorModal'.show
              /\ errorModal'.message =
                    (IF event'.op = "performSearch"
                     THEN "Please enter a search query."
                     ELSE QuestionValidationMessage)
              /\ statusDot' = "error")
       /\ (/\ isLoading /\ event'.op = "askQuestion"
           /\ Trim(event'.arg) # <<>> /\ ~hasArticles)
          => (/\ event'.outcome = "precondition"
              /\ errorModal'.show
              /\ errorModal'.message = PreconditionMessage
              /\ statusDot' = "error")]_vars

\* C25 witness: a question asked while the first search is in flight is
\* refused for want of articles; the status shows the error while the
\* request is still awaited.
C25_Witness ==
    /\ isLoading /\ inflight # <<>>
    /\ event.op = "askQuestion" /\ event.outcome = "precondition"
    /\ statusDot = "error" /\ errorModal.show

\* C26: when a performSearch or askQuestion call that took the guard
\* finishes, the status indicator is "ready" whatever the outcome; the error
\* status set while reporting a failure does not outlive the call.
C26_ReadyWhenCallEnds ==
    [][event'.op \in SettledOps => (statusDot' = "ready" /\ ~isLoading')]_vars

\* C26 witness: a question failed at the transport; the modal shows the
\* error and the status is ready.
C26_Witness ==
    /\ event.op = "askSettled" /\ event.resp.rejected
    /\ errorModal.show /\ errorModal.message = "Failed to fetch"
    /\ statusDot = "ready" /\ ~isLoading

\* C27: in every reachable state hasArticles is true exactly when articles
\* is non-empty, hasArticles true implies a non-blank lastQuery, and
\* hasArticles never goes from true back to false under any sequence of
\* searches, questions, health checks and bookmark toggles.
C27_HasArticlesConsistent ==
    /\ [](hasArticles <=> articles # <<>>)
    /\ [](hasArticles => Trim(lastQuery) # <<>>)
    /\ [][hasArticles => hasArticles']_vars

\* C27 witness: an empty result arrived after the search " y" had loaded
\* articles; they are still there, one is bookmarked, and a periodic health
\* probe has been issued.
C27_Witness ==
    /\ SearchSucceeded(event) /\ event.resp.body.articles = <<>>
    /\ hasArticles /\ articles # <<>>
    /\ lastQuery = <<" ", "y">>
    /\ bookmarks # <<>>
    /\ probes > 1

====
